---- MODULE Spec2Model ----
(***************************************************************************)
(* Symbol model and boundary tools of DebugAgent.                          *)
(*                                                                         *)
(*   src/lldb_wrapper.py  LLDBSymbol, LLDBTarget, LLDB (backend adapter)   *)
(*   src/main.py          Application (handle table) and the tools         *)
(*                        get_global, get_member, get_members, get_index,  *)
(*                        get_array_size, get_value_string,                *)
(*                        get_value_number, get_targets                    *)
(*                                                                         *)
(* Names are sequences of one-character strings, so that str.find can be   *)
(* computed.  A native value (lldb.SBValue) is a record of what the        *)
(* adapter reads from it.                                                  *)
(*                                                                         *)
(* targets, symbols   the registry of targets and the handle table         *)
(* last               the tool call in progress and its outcome            *)
(* pool               the identifiers uuid4 draws from in this session     *)
(* hist               the completed calls of a scripted session            *)
(* probe, ptype, pval one native value, its type() and its value accessor  *)
(***************************************************************************)
EXTENDS Integers, Sequences, FiniteSets, TLC

VARIABLES targets, symbols, last, probe, ptype, pval, pool, hist

vars == <<targets, symbols, last, probe, ptype, pval, pool, hist>>

----------------------------------------------------------------------------
(* Bounds of the model.                                                    *)

\* number of identifiers uuid4 can hand out in one session
MaxHandles == 3
\* longest generated get_global name
MaxNameLen == 2
\* largest index a caller passes to get_index
MaxIndex == 3
\* longest char array the classification probe holds
MaxBytes == 3
\* number of identifiers uuid4 can hand out in the scripted session
ScriptHandles == 4

Ids == 1..MaxHandles

----------------------------------------------------------------------------
(* SymbolType: the six kinds main.py and lldb_wrapper.py use               *)
(* (SymbolInfo.type, main.py:135; SymbolType.STRING / ENUM,                *)
(* lldb_wrapper.py:42,50).                                                 *)

SymbolType == {"BASIC", "STRUCT", "ARRAY", "POINTER", "STRING", "ENUM"}

\* Python's None, as returned by SBValue.GetName()/GetValue() of an invalid value
None == <<"None">>

----------------------------------------------------------------------------
(* The inspected program: the native values the backend hands out.         *)

cfgN   == <<"c", "f", "g">>
countN == <<"c", "o", "u", "n", "t">>
itemsN == <<"i", "t", "e", "m", "s">>
modeN  == <<"m", "o", "d", "e">>
ptrN   == <<"p", "t", "r">>
strN   == <<"s", "t", "r">>
idx0N  == <<"[", "0", "]">>
idx1N  == <<"[", "1", "]">>
idx2N  == <<"[", "2", "]">>
redN   == <<"R", "E", "D">>

Scalar(nm, basic, text, sv, uv) ==
    [valid |-> TRUE, name |-> nm, isPointer |-> FALSE, isArray |-> FALSE,
     isAggregate |-> FALSE, isEnum |-> FALSE, elemChar |-> FALSE,
     readOk |-> TRUE, bytes |-> <<>>, children |-> <<>>,
     basicType |-> basic, text |-> text, sval |-> sv, uval |-> uv]

Values ==
    {"cfg", "count", "items", "i0", "i1", "i2", "mode", "ptr", "str", "ch", "invalid"}

Native ==
    [v \in Values |->
       CASE v = "cfg" ->
              [Scalar(cfgN, "Invalid", None, 0, 0) EXCEPT
                 !.isAggregate = TRUE, !.children = <<"count", "items">>]
         [] v = "count" -> Scalar(countN, "Int", <<"1", "0">>, 10, 10)
         [] v = "items" ->
              [Scalar(itemsN, "Invalid", None, 0, 0) EXCEPT
                 !.isArray = TRUE, !.isAggregate = TRUE,
                 !.children = <<"i0", "i1", "i2">>]
         [] v = "i0" -> Scalar(idx0N, "Int", <<"1">>, 1, 1)
         [] v = "i1" -> Scalar(idx1N, "Int", <<"2">>, 2, 2)
         [] v = "i2" -> Scalar(idx2N, "Int", <<"3">>, 3, 3)
         [] v = "mode" ->
              [Scalar(modeN, "Invalid", redN, 1, 1) EXCEPT !.isEnum = TRUE]
         \* a pointer to cfg: the backend shows the pointee's members as the
         \* children of the pointer value
         [] v = "ptr" ->
              [Scalar(ptrN, "Invalid", <<"0", "x", "1", "f">>, 31, 31) EXCEPT
                 !.isPointer = TRUE, !.children = <<"count", "items">>]
         [] v = "str" ->
              [Scalar(strN, "Invalid", None, 0, 0) EXCEPT
                 !.isArray = TRUE, !.isAggregate = TRUE, !.elemChar = TRUE,
                 !.bytes = <<104, 105, 0, 200>>,
                 !.children = <<"ch", "ch", "ch", "ch">>]
         [] v = "ch" -> Scalar(idx0N, "Char", <<"'", "h", "'">>, 104, 104)
         \* an invalid SBValue: what the lookups return when nothing is found
         [] OTHER ->
              [Scalar(None, "Invalid", None, 0, 0) EXCEPT !.valid = FALSE]]

\* the globals of the loaded image
GlobalValues == {"cfg", "mode", "ptr", "str"}

----------------------------------------------------------------------------
(* LLDBSymbol (src/lldb_wrapper.py).                                       *)

name(n) == n.name

GetNumChildren(n) == Len(n.children)

\* a scan that does not stop at a zero byte
RECURSIVE ScanBytes_past_zero(_, _, _)
ScanBytes_past_zero(bytes, i, chars) ==
    IF i > Len(bytes) THEN [kind |-> "str", s |-> chars]
    ELSE IF 33 <= bytes[i] /\ bytes[i] <= 127
         THEN ScanBytes_past_zero(bytes, i + 1, Append(chars, bytes[i]))
    ELSE IF bytes[i] = 0 THEN ScanBytes_past_zero(bytes, i + 1, chars)
    ELSE [kind |-> "none", s |-> <<>>]

\* the scan loop of _cast_string over byte_data[i..]
RECURSIVE ScanBytes(_, _, _)
ScanBytes(bytes, i, chars) ==
    IF i > Len(bytes) THEN [kind |-> "str", s |-> chars]
    ELSE IF 33 <= bytes[i] /\ bytes[i] <= 127
         THEN ScanBytes(bytes, i + 1, Append(chars, bytes[i]))
    ELSE IF bytes[i] = 0 THEN [kind |-> "str", s |-> chars]
    ELSE [kind |-> "none", s |-> <<>>]

\* kind "str": the string; "none": None; "raise": RuntimeError (read failed)
cast_string(n) ==
    IF n.isArray /\ n.elemChar
    THEN IF ~n.readOk THEN [kind |-> "raise", s |-> <<>>]
         ELSE ScanBytes(n.bytes, 1, <<>>)
    ELSE [kind |-> "none", s |-> <<>>]

\* a type() that takes a pointer with children for an indexable value
type_through_pointer(n) ==
    IF n.isPointer /\ n.children # <<>> THEN "ARRAY"
    ELSE IF n.isPointer THEN "POINTER"
    ELSE IF n.isArray
         THEN LET obj == cast_string(n)
              IN  IF obj.kind = "raise" THEN "RuntimeError"
                  ELSE IF obj.kind = "str" THEN "STRING"
                  ELSE "ARRAY"
    ELSE IF n.isAggregate THEN "STRUCT"
    ELSE IF n.isEnum THEN "ENUM"
    ELSE "BASIC"

\* the SymbolType, or "RuntimeError" when _cast_string raises
type(n) ==
    IF n.isPointer THEN "POINTER"
    ELSE IF n.isArray
         THEN LET obj == cast_string(n)
              IN  IF obj.kind = "raise" THEN "RuntimeError"
                  ELSE IF obj.kind = "str" THEN "STRING"
                  ELSE "ARRAY"
    ELSE IF n.isAggregate THEN "STRUCT"
    ELSE IF n.isEnum THEN "ENUM"
    ELSE "BASIC"

\* a has_members that takes every aggregate, arrays included
has_members_any_aggregate(n) == n.isAggregate

has_members(n) == n.isAggregate /\ ~n.isArray

\* Python int(text, 0) and float(text) on the text SBValue.GetValue() returns
HexDigits ==
    <<"0", "1", "2", "3", "4", "5", "6", "7", "8", "9", "a", "b", "c", "d", "e", "f">>

DigitVal(c) == (CHOOSE i \in 1..Len(HexDigits) : HexDigits[i] = c) - 1

IsDigit(c, base) == \E i \in 1..base : HexDigits[i] = c

RECURSIVE DigitsValue(_, _, _)
DigitsValue(ds, base, acc) ==
    IF ds = <<>> THEN acc
    ELSE DigitsValue(Tail(ds), base, acc * base + DigitVal(Head(ds)))

AllDigits(ds, base) == ds # <<>> /\ \A i \in 1..Len(ds) : IsDigit(ds[i], base)

\* [exc, val]: exc is "none", "TypeError" (text is None) or "ValueError"
PyInt0(text) ==
    IF text = None THEN [exc |-> "TypeError", val |-> 0]
    ELSE LET neg  == text # <<>> /\ text[1] = "-"
             body == IF neg THEN Tail(text) ELSE text
             sgn  == IF neg THEN -1 ELSE 1
         IN  IF Len(body) >= 2 /\ body[1] = "0" /\ body[2] = "x"
             THEN LET ds == SubSeq(body, 3, Len(body))
                  IN  IF AllDigits(ds, 16)
                      THEN [exc |-> "none", val |-> sgn * DigitsValue(ds, 16, 0)]
                      ELSE [exc |-> "ValueError", val |-> 0]
             ELSE IF AllDigits(body, 10)
                     /\ (body[1] # "0" \/ \A i \in 1..Len(body) : body[i] = "0")
             THEN [exc |-> "none", val |-> sgn * DigitsValue(body, 10, 0)]
             ELSE [exc |-> "ValueError", val |-> 0]

\* a float is kept as <<mantissa, number of fractional digits>>
PyFloat(text) ==
    IF text = None THEN [exc |-> "TypeError", val |-> <<0, 0>>]
    ELSE LET neg  == text # <<>> /\ text[1] = "-"
             body == IF neg THEN Tail(text) ELSE text
             sgn  == IF neg THEN -1 ELSE 1
             dots == {i \in 1..Len(body) : body[i] = "."}
         IN  IF dots = {} /\ AllDigits(body, 10)
             THEN [exc |-> "none", val |-> <<sgn * DigitsValue(body, 10, 0), 0>>]
             ELSE IF Cardinality(dots) = 1
             THEN LET d  == CHOOSE i \in dots : TRUE
                      ip == SubSeq(body, 1, d - 1)
                      fp == SubSeq(body, d + 1, Len(body))
                  IN  IF (ip # <<>> \/ fp # <<>>)
                         /\ (ip = <<>> \/ AllDigits(ip, 10))
                         /\ (fp = <<>> \/ AllDigits(fp, 10))
                      THEN [exc |-> "none",
                            val |-> <<sgn * DigitsValue(ip \o fp, 10, 0), Len(fp)>>]
                      ELSE [exc |-> "ValueError", val |-> <<0, 0>>]
             ELSE [exc |-> "ValueError", val |-> <<0, 0>>]

int_types ==
    {"SignedChar", "UnsignedChar", "Char", "Int", "Long", "UnsignedInt",
     "UnsignedLong", "LongLong", "UnsignedLongLong"}

float_types == {"Float", "Double"}

\* [exc, kind, val]: kind "int" or "float"
value_number(n) ==
    LET t == type(n)
        I(r) == [exc |-> r.exc, kind |-> "int", val |-> r.val]
    IN  IF t = "RuntimeError" THEN [exc |-> "RuntimeError", kind |-> "int", val |-> 0]
        ELSE IF t = "ENUM" THEN [exc |-> "none", kind |-> "int", val |-> n.uval]
        ELSE IF t = "POINTER" THEN I(PyInt0(n.text))
        ELSE IF t # "BASIC" THEN [exc |-> "AssertionError", kind |-> "int", val |-> 0]
        ELSE IF n.basicType = "Invalid"
             THEN [exc |-> "ValueError", kind |-> "int", val |-> 0]
        ELSE IF n.basicType \in {"SignedChar", "Char"}
             THEN [exc |-> "none", kind |-> "int", val |-> n.sval]
        ELSE IF n.basicType = "UnsignedChar"
             THEN [exc |-> "none", kind |-> "int", val |-> n.uval]
        ELSE IF n.basicType \in int_types THEN I(PyInt0(n.text))
        ELSE IF n.basicType \in float_types
             THEN LET r == PyFloat(n.text)
                  IN  [exc |-> r.exc, kind |-> "float", val |-> r.val]
        ELSE [exc |-> "NotImplementedError", kind |-> "int", val |-> 0]

\* a value_string that gives the variable's name for an ENUM
value_string_named(n) ==
    LET t == type(n)
    IN  IF t = "RuntimeError" THEN [exc |-> "RuntimeError", val |-> <<>>]
        ELSE IF t = "STRING" THEN [exc |-> "none", val |-> cast_string(n).s]
        ELSE IF t = "ENUM" THEN [exc |-> "none", val |-> name(n)]
        ELSE [exc |-> "AssertionError", val |-> <<>>]

\* [exc, val]: the decoded bytes of a STRING, the enumerator name of an ENUM
value_string(n) ==
    LET t == type(n)
    IN  IF t = "RuntimeError" THEN [exc |-> "RuntimeError", val |-> <<>>]
        ELSE IF t = "STRING" THEN [exc |-> "none", val |-> cast_string(n).s]
        ELSE IF t = "ENUM" THEN [exc |-> "none", val |-> n.text]
        ELSE [exc |-> "AssertionError", val |-> <<>>]

\* _check_members: TRUE when it returns, FALSE when it raises RuntimeError
check_members(n) == has_members(n)

\* SBValue.GetChildMemberWithName: the child of that name, or an invalid value
GetChildMemberWithName(n, nm) ==
    IF \E i \in 1..Len(n.children) : Native[n.children[i]].name = nm
    THEN n.children[CHOOSE i \in 1..Len(n.children) :
                      /\ Native[n.children[i]].name = nm
                      /\ \A j \in 1..(i - 1) : Native[n.children[j]].name # nm]
    ELSE "invalid"

\* [exc, sym] of LLDBSymbol.member
member(n, nm) ==
    IF ~check_members(n) THEN [exc |-> "RuntimeError", sym |-> "invalid"]
    ELSE [exc |-> "none", sym |-> GetChildMemberWithName(n, nm)]

\* [exc, syms] of LLDBSymbol.members
members(n) ==
    IF ~check_members(n) THEN [exc |-> "RuntimeError", syms |-> <<>>]
    ELSE [exc |-> "none", syms |-> n.children]

\* [exc, val] of LLDBSymbol.num_indices
num_indices(n) ==
    IF type(n) # "ARRAY" THEN [exc |-> "AssertionError", val |-> 0]
    ELSE [exc |-> "none", val |-> GetNumChildren(n)]

\* SBValue.GetChildAtIndex takes a uint32_t: for an index in range the child,
\* past the end an invalid value; a negative int does not convert and the
\* binding raises TypeError
GetChildAtIndex(n, i) ==
    IF i < 0 THEN [exc |-> "TypeError", sym |-> "invalid"]
    ELSE IF i < Len(n.children) THEN [exc |-> "none", sym |-> n.children[i + 1]]
    ELSE [exc |-> "none", sym |-> "invalid"]

\* [exc, sym] of LLDBSymbol.index
index(n, i) ==
    IF type(n) # "ARRAY" THEN [exc |-> "AssertionError", sym |-> "invalid"]
    ELSE IF ~(i < num_indices(n).val)
         THEN [exc |-> "AssertionError", sym |-> "invalid"]
    ELSE GetChildAtIndex(n, i)

----------------------------------------------------------------------------
(* LLDBTarget and LLDB (src/lldb_wrapper.py).                              *)

TargetNames == {"t", "u"}

\* SBTarget.FindFirstGlobalVariable: the global of that name, or an invalid value
FindFirstGlobalVariable(nm) ==
    IF \E g \in GlobalValues : Native[g].name = nm
    THEN CHOOSE g \in GlobalValues : Native[g].name = nm
    ELSE "invalid"

\* LLDBTarget.get_global wraps whatever the lookup returned
target_get_global(nm) == FindFirstGlobalVariable(nm)

\* LLDB.targets: list(self._targets.values()), a list of the targets held
LLDB_targets(reg) == [class |-> "list", elems |-> reg]

----------------------------------------------------------------------------
(* Application and the tools (src/main.py).                                *)

\* the errors the tools raise as ToolException, by raise site
ToolErrors ==
    {"InvalidIdentifier", "SymbolNotFound", "UnknownHandle", "HandleMismatch",
     "WrongSymbolType"}

\* the accessors each message of ERR_REROUTE_STR names; POINTER has no entry
ERR_REROUTE_STR ==
    [t \in {"ARRAY", "BASIC", "ENUM", "STRING", "STRUCT"} |->
       CASE t = "ARRAY"  -> {"get_index", "get_array_size"}
         [] t = "BASIC"  -> {"get_value_number"}
         [] t = "ENUM"   -> {"get_value_string"}
         [] t = "STRING" -> {"get_value_string"}
         [] t = "STRUCT" -> {"get_member"}]

NoVal == <<"none">>

Call(op, tgt, id, snap, arg, idx) ==
    [op |-> op, target |-> tgt, id |-> id, snap |-> snap, arg |-> arg,
     idx |-> idx, err |-> "none", infos |-> <<>>, val |-> NoVal,
     suggest |-> {}]

\* no call in progress
Idle == Call("idle", "", 0, <<>>, <<>>, 0)

Raise(c, err) == [c EXCEPT !.err = err]

\* the f-string of a wrong-type message reads ERR_REROUTE_STR[var.type()]
RaiseReroute(c, t) ==
    IF t = "RuntimeError" THEN Raise(c, "RuntimeError")
    ELSE IF t \notin DOMAIN ERR_REROUTE_STR THEN Raise(c, "KeyError")
    ELSE [c EXCEPT !.err = "WrongSymbolType", !.suggest = ERR_REROUTE_STR[t]]

\* an identifier source that can hand out an identifier already in the table
uuid4_reused(tab) == pool

\* the identifiers uuid.uuid4() may return: one of the session's pool that is
\* not in use
uuid4(tab) == pool \ DOMAIN tab

\* an add_symbol that keeps the newest entry only
add_symbol_evicting(tab, sym, id) ==
    LET n == Native[sym]
        t == type(n)
    IN  [symbols |-> (id :> sym),
         exc |-> IF t = "RuntimeError" THEN "RuntimeError"
                 ELSE IF name(n) = None THEN "ValidationError"
                 ELSE "none",
         info |-> [id |-> id, name |-> name(n), type |-> t]]

\* Application.add_symbol with the identifier uuid4 returned:
\* the table is written before SymbolInfo is built and validated
add_symbol(tab, sym, id) ==
    LET n == Native[sym]
        t == type(n)
    IN  [symbols |-> (id :> sym) @@ tab,
         exc |-> IF t = "RuntimeError" THEN "RuntimeError"
                 ELSE IF name(n) = None THEN "ValidationError"
                 ELSE "none",
         info |-> [id |-> id, name |-> name(n), type |-> t]]

\* Application.get_symbol: dict.get
get_symbol(tab, id) == IF id \in DOMAIN tab THEN tab[id] ELSE "None"

----------------------------------------------------------------------------
(* Inputs of the callers.                                                  *)

GenChars == {"c", "."}

GenNames == UNION {[1..k -> GenChars] : k \in 1..MaxNameLen}

GlobalInputs ==
    {cfgN, modeN, ptrN, strN, countN, <<"[">>, <<"c", "[">>, <<"]">>, <<"c", "]">>}
        \cup GenNames

MemberInputs == {countN, itemsN, cfgN, <<"c">>}

IndexInputs == (-1)..MaxIndex

WrongName == <<"x">>

\* the name a caller sends in a SymbolInfo: the one it was given, or another
SnapInputs(id) ==
    IF id \in DOMAIN symbols
    THEN ({name(Native[symbols[id]])} \ {None}) \cup {WrongName}
    ELSE {cfgN, WrongName}

----------------------------------------------------------------------------
(* The tools.                                                              *)

\* str.find: the first position of c in nm, from 0, or -1
find(nm, c) ==
    IF \E i \in 1..Len(nm) : nm[i] = c
    THEN (CHOOSE i \in 1..Len(nm) :
            nm[i] = c /\ \A j \in 1..(i - 1) : nm[j] # c) - 1
    ELSE -1

spl_chars(nm) == \E c \in {"[", "]", "."} : find(nm, c) > 0

create_target_from_file(tn) ==
    /\ last = Idle
    /\ targets' = targets \cup {tn}
    /\ last' = Call("create_target_from_file", tn, 0, <<>>, <<>>, 0)
    /\ UNCHANGED <<symbols, probe, ptype, pval, pool, hist>>

get_global(tn, nm) ==
    LET c == Call("get_global", tn, 0, <<>>, nm, 0)
    IN  /\ last = Idle
        /\ UNCHANGED <<targets, probe, ptype, pval, pool, hist>>
        /\ IF spl_chars(nm)
           THEN last' = Raise(c, "InvalidIdentifier") /\ UNCHANGED symbols
           ELSE IF tn \notin targets
           THEN last' = Raise(c, "KeyError") /\ UNCHANGED symbols
           ELSE \E id \in uuid4(symbols) :
                   LET r == add_symbol(symbols, target_get_global(nm), id)
                   IN  /\ symbols' = r.symbols
                       /\ last' = IF r.exc # "none" THEN Raise(c, r.exc)
                                  ELSE [c EXCEPT !.infos = <<r.info>>]

\* get_targets iterates debugger.lldb.targets().items(): only a dict has items()
get_targets ==
    LET c  == Call("get_targets", "", 0, <<>>, <<>>, 0)
        ts == LLDB_targets(targets)
    IN  /\ last = Idle
        /\ UNCHANGED <<targets, symbols, probe, ptype, pval, pool, hist>>
        /\ last' = IF ts.class # "dict" THEN Raise(c, "AttributeError")
                    ELSE [c EXCEPT !.val = <<"names", ts.elems>>]

get_member(id, snap, nm) ==
    LET c   == Call("get_member", "", id, snap, nm, 0)
        var == get_symbol(symbols, id)
    IN  /\ last = Idle
        /\ UNCHANGED <<targets, probe, ptype, pval, pool, hist>>
        /\ IF var = "None"
           THEN last' = Raise(c, "UnknownHandle") /\ UNCHANGED symbols
           ELSE IF name(Native[var]) # snap
           THEN last' = Raise(c, "HandleMismatch") /\ UNCHANGED symbols
           ELSE IF type(Native[var]) # "STRUCT"
           THEN last' = RaiseReroute(c, type(Native[var])) /\ UNCHANGED symbols
           ELSE LET m == member(Native[var], nm)
                IN  IF m.exc # "none"
                    THEN last' = Raise(c, m.exc) /\ UNCHANGED symbols
                    ELSE \E new \in uuid4(symbols) :
                            LET r == add_symbol(symbols, m.sym, new)
                            IN  /\ symbols' = r.symbols
                                /\ last' = IF r.exc # "none" THEN Raise(c, r.exc)
                                           ELSE [c EXCEPT !.infos = <<r.info>>]

\* the loop of get_members: add_symbol on each member in turn, with the
\* identifiers ids[1], ids[2], ... ; stops at the first add_symbol that raises
RECURSIVE add_all(_, _, _, _)
add_all(acc, syms, ids, i) ==
    IF i > Len(syms) \/ acc.exc # "none" THEN acc
    ELSE LET r == add_symbol(acc.symbols, syms[i], ids[i])
         IN  add_all([symbols |-> r.symbols, exc |-> r.exc,
                      infos |-> IF r.exc = "none" THEN Append(acc.infos, r.info)
                                ELSE acc.infos,
                      fresh |-> acc.fresh /\ ids[i] \in uuid4(acc.symbols)],
                     syms, ids, i + 1)

get_members(id, snap) ==
    LET c == Call("get_members", "", id, snap, <<>>, 0)
    IN  /\ last = Idle
        /\ UNCHANGED <<targets, probe, ptype, pval, pool, hist>>
        /\ IF id \notin DOMAIN symbols
           THEN last' = Raise(c, "KeyError") /\ UNCHANGED symbols
           ELSE IF type(Native[symbols[id]]) # "STRUCT"
           THEN last' = RaiseReroute(c, type(Native[symbols[id]]))
                /\ UNCHANGED symbols
           ELSE LET ms == members(Native[symbols[id]])
                IN  IF ms.exc # "none"
                    THEN last' = Raise(c, ms.exc) /\ UNCHANGED symbols
                    ELSE \E ids \in [1..Len(ms.syms) -> Ids] :
                            LET r == add_all([symbols |-> symbols, exc |-> "none",
                                              infos |-> <<>>, fresh |-> TRUE],
                                             ms.syms, ids, 1)
                            IN  /\ r.fresh
                                /\ symbols' = r.symbols
                                /\ last' = IF r.exc # "none" THEN Raise(c, r.exc)
                                           ELSE [c EXCEPT !.infos = r.infos]

get_index(id, snap, i) ==
    LET c == Call("get_index", "", id, snap, <<>>, i)
    IN  /\ last = Idle
        /\ UNCHANGED <<targets, probe, ptype, pval, pool, hist>>
        /\ IF id \notin DOMAIN symbols
           THEN last' = Raise(c, "KeyError") /\ UNCHANGED symbols
           ELSE IF type(Native[symbols[id]]) # "ARRAY"
           THEN last' = RaiseReroute(c, type(Native[symbols[id]]))
                /\ UNCHANGED symbols
           ELSE LET x == index(Native[symbols[id]], i)
                IN  IF x.exc # "none"
                    THEN last' = Raise(c, x.exc) /\ UNCHANGED symbols
                    ELSE \E new \in uuid4(symbols) :
                            LET r == add_symbol(symbols, x.sym, new)
                            IN  /\ symbols' = r.symbols
                                /\ last' = IF r.exc # "none" THEN Raise(c, r.exc)
                                           ELSE [c EXCEPT !.infos = <<r.info>>]

get_array_size(id, snap) ==
    LET c == Call("get_array_size", "", id, snap, <<>>, 0)
    IN  /\ last = Idle
        /\ UNCHANGED <<targets, symbols, probe, ptype, pval, pool, hist>>
        /\ IF id \notin DOMAIN symbols
           THEN last' = Raise(c, "KeyError")
           ELSE IF type(Native[symbols[id]]) # "ARRAY"
           THEN last' = RaiseReroute(c, type(Native[symbols[id]]))
           ELSE LET r == num_indices(Native[symbols[id]])
                IN  last' = IF r.exc # "none" THEN Raise(c, r.exc)
                            ELSE [c EXCEPT !.val = <<"int", r.val>>]

get_value_string(id, snap) ==
    LET c == Call("get_value_string", "", id, snap, <<>>, 0)
    IN  /\ last = Idle
        /\ UNCHANGED <<targets, symbols, probe, ptype, pval, pool, hist>>
        /\ IF id \notin DOMAIN symbols
           THEN last' = Raise(c, "KeyError")
           ELSE IF type(Native[symbols[id]]) \in {"STRING", "ENUM"}
           THEN LET r == value_string(Native[symbols[id]])
                IN  last' = IF r.exc # "none" THEN Raise(c, r.exc)
                            ELSE IF r.val = None THEN Raise(c, "TypeError")
                            ELSE IF Len(r.val) = 0 THEN [c EXCEPT !.val = NoVal]
                            ELSE [c EXCEPT !.val = <<"str", r.val>>]
           ELSE last' = RaiseReroute(c, type(Native[symbols[id]]))

get_value_number(id, snap) ==
    LET c == Call("get_value_number", "", id, snap, <<>>, 0)
    IN  /\ last = Idle
        /\ UNCHANGED <<targets, symbols, probe, ptype, pval, pool, hist>>
        /\ IF id \notin DOMAIN symbols
           THEN last' = Raise(c, "KeyError")
           ELSE IF type(Native[symbols[id]]) \in {"BASIC", "POINTER", "ENUM"}
           THEN LET r == value_number(Native[symbols[id]])
                IN  last' = IF r.exc # "none" THEN Raise(c, r.exc)
                            ELSE [c EXCEPT !.val = <<r.kind, r.val>>]
           ELSE IF type(Native[symbols[id]]) = "RuntimeError"
           THEN last' = Raise(c, "RuntimeError")
           \* this message has no ERR_REROUTE_STR part
           ELSE last' = Raise(c, "WrongSymbolType")

----------------------------------------------------------------------------
(* The session: Application() and then any sequence of tool calls.         *)

NoProbe == [isPointer |-> FALSE, isArray |-> FALSE, isAggregate |-> FALSE,
            isEnum |-> FALSE, elemChar |-> FALSE, readOk |-> TRUE,
            bytes |-> <<>>]

Init ==
    /\ targets = {}
    /\ symbols = <<>>
    /\ last = Idle
    /\ probe = NoProbe
    /\ ptype = "none"
    /\ pval = NoVal
    /\ pool = Ids
    /\ hist = <<>>

\* the tool's result, or its error, goes back to the caller; the agent runs
\* one tool call at a time
tool_return ==
    /\ last # Idle
    /\ last' = Idle
    /\ UNCHANGED <<targets, symbols, probe, ptype, pval, pool, hist>>

Next ==
    \/ \E tn \in TargetNames : create_target_from_file(tn)
    \/ get_targets
    \/ \E tn \in TargetNames, nm \in GlobalInputs : get_global(tn, nm)
    \/ \E id \in Ids : \E snap \in SnapInputs(id), nm \in MemberInputs :
          get_member(id, snap, nm)
    \/ \E id \in Ids : \E snap \in SnapInputs(id) : get_members(id, snap)
    \/ \E id \in Ids : \E snap \in SnapInputs(id), i \in IndexInputs :
          get_index(id, snap, i)
    \/ \E id \in Ids : \E snap \in SnapInputs(id) : get_array_size(id, snap)
    \/ \E id \in Ids : \E snap \in SnapInputs(id) : get_value_string(id, snap)
    \/ \E id \in Ids : \E snap \in SnapInputs(id) : get_value_number(id, snap)
    \/ tool_return

Spec == Init /\ [][Next]_vars

----------------------------------------------------------------------------
(* Classification of one native value, for every combination of what the   *)
(* backend reports of it.                                                  *)

ByteSamples == {0, 32, 33, 127, 128, 200}

ByteArrays == UNION {[1..k -> ByteSamples] : k \in 1..MaxBytes}

\* every combination of the type predicates over readable bytes, and the
\* char arrays whose bytes cannot be read
Probes ==
    {[isPointer |-> p, isArray |-> a, isAggregate |-> g, isEnum |-> e,
      elemChar |-> c, readOk |-> TRUE, bytes |-> b] :
        p \in BOOLEAN, a \in BOOLEAN, g \in BOOLEAN, e \in BOOLEAN,
        c \in BOOLEAN, b \in ByteArrays}
    \cup
    {[isPointer |-> FALSE, isArray |-> TRUE, isAggregate |-> TRUE,
      isEnum |-> FALSE, elemChar |-> TRUE, readOk |-> FALSE, bytes |-> b] :
        b \in ByteArrays}

InitType ==
    /\ targets = {}
    /\ symbols = <<>>
    /\ last = Idle
    /\ probe \in Probes
    /\ ptype = "none"
    /\ pval = NoVal
    /\ pool = Ids
    /\ hist = <<>>

\* LLDBSymbol(var).type()
classify ==
    /\ ptype = "none"
    /\ ptype' = type(probe)
    /\ UNCHANGED <<targets, symbols, last, probe, pval, pool, hist>>

\* LLDBSymbol(var).value_string() of a value whose type() is STRING
read_string ==
    /\ ptype = "STRING"
    /\ pval = NoVal
    /\ pval' = <<"str", value_string(probe).val>>
    /\ UNCHANGED <<targets, symbols, last, probe, ptype, pool, hist>>

NextType == classify \/ read_string

SpecType == InitType /\ [][NextType]_vars

----------------------------------------------------------------------------
(* One char array of the inspected program while the program runs: the     *)
(* handle's SymbolInfo keeps the type add_symbol read, the tools read       *)
(* var.type() again on every call.                                         *)

\* the char arrays of an inspected program
LiveProbes ==
    {p \in Probes : /\ ~p.isPointer /\ p.isArray /\ p.isAggregate
                    /\ ~p.isEnum /\ p.elemChar /\ p.readOk}

InitLive ==
    /\ targets = {}
    /\ symbols = <<>>
    /\ last = Idle
    /\ probe \in LiveProbes
    /\ ptype = "none"
    /\ pval = NoVal
    /\ pool = Ids
    /\ hist = <<>>

\* the inspected process runs (launch_process) and stores one byte of the array
store(i, b) ==
    /\ i \in 1..Len(probe.bytes)
    /\ probe' = [probe EXCEPT !.bytes[i] = b]
    /\ UNCHANGED <<targets, symbols, last, ptype, pval, pool, hist>>

\* a tool resolves the handle and reads var.type()
observe ==
    /\ ptype # "none"
    /\ pval' = <<"type", type(probe)>>
    /\ UNCHANGED <<targets, symbols, last, probe, ptype, pool, hist>>

\* classify: add_symbol records sym.type() in the SymbolInfo it returns
NextLive ==
    \/ classify
    \/ \E i \in 1..MaxBytes, b \in ByteSamples : store(i, b)
    \/ observe

SpecLive == InitLive /\ [][NextLive]_vars

----------------------------------------------------------------------------
(* value_number of one BASIC value, for every basic type of the backend    *)
(* with the text and the integer readings the backend gives of it.         *)

\* <<GetValue() text, the integer it denotes>>
IntSamples ==
    {<<<<"0">>, 0>>, <<<<"7">>, 7>>, <<<<"1", "0">>, 10>>, <<<<"4", "2">>, 42>>,
     <<<<"0", "x", "1", "f">>, 31>>, <<<<"0", "x", "0">>, 0>>}

NegSamples == {<<<<"-", "5">>, -5>>, <<<<"-", "1", "0">>, -10>>}

\* <<GetValue() text, <<mantissa, fractional digits>> >>
FloatSamples ==
    {<<<<"1", ".", "5">>, <<15, 1>>>>, <<<<"1", "0">>, <<10, 0>>>>,
     <<<<"-", "0", ".", "2", "5">>, <<-25, 2>>>>, <<<<"2", ".">>, <<2, 0>>>>}

\* <<GetValueAsSigned(), GetValueAsUnsigned()>> of one byte
CharSamples == {<<104, 104>>, <<0, 0>>, <<-1, 255>>, <<-128, 128>>}

SignedInts == {"Short", "Int", "Long", "LongLong"}

UnsignedInts ==
    {"UnsignedShort", "UnsignedInt", "UnsignedLong", "UnsignedLongLong"}

CharTypes == {"Char", "SignedChar", "UnsignedChar"}

\* basic types with no reading as a number in value_number
OtherTypes == {"Void", "Bool", "WChar", "LongDouble", "Invalid"}

ValueProbes ==
    {Scalar(countN, b, x[1], x[2], x[2]) :
        b \in SignedInts \cup UnsignedInts, x \in IntSamples}
    \cup {Scalar(countN, b, x[1], x[2], x[2] + 65536) :
        b \in SignedInts, x \in NegSamples}
    \cup {Scalar(countN, b, <<"'", "c", "'">>, x[1], x[2]) :
        b \in CharTypes, x \in CharSamples}
    \cup {Scalar(countN, b, x[1], 0, 0) : b \in float_types, x \in FloatSamples}
    \cup {Scalar(countN, b, x[1], 0, 0) :
        b \in OtherTypes, x \in FloatSamples \cup {<<None, 0>>}}

InitValue ==
    /\ targets = {}
    /\ symbols = <<>>
    /\ last = Idle
    /\ probe \in ValueProbes
    /\ ptype = "none"
    /\ pval = NoVal
    /\ pool = Ids
    /\ hist = <<>>

\* LLDBSymbol(var).value_number()
read_number ==
    /\ pval = NoVal
    /\ pval' = <<"number", value_number(probe)>>
    /\ UNCHANGED <<targets, symbols, last, probe, ptype, pool, hist>>

NextValue == classify \/ read_number

SpecValue == InitValue /\ [][NextValue]_vars

----------------------------------------------------------------------------
(* A scripted session: one caller that creates target t, walks cfg and     *)
(* feeds each SymbolInfo it was given into its next call.                  *)

InitScript ==
    /\ targets = {}
    /\ symbols = <<>>
    /\ last = Idle
    /\ probe = NoProbe
    /\ ptype = "none"
    /\ pval = NoVal
    /\ pool = 1..ScriptHandles
    /\ hist = <<>>

\* the SymbolInfo the k-th call returned
Given(k) == hist[k].infos[1]

Returned(k) == Len(hist) >= k /\ hist[k].err = "none" /\ Len(hist[k].infos) = 1

\* the caller takes the tool's answer and keeps it
script_return ==
    /\ last # Idle
    /\ hist' = Append(hist, last)
    /\ last' = Idle
    /\ UNCHANGED <<targets, symbols, probe, ptype, pval, pool>>

NextScript ==
    \/ Len(hist) = 0 /\ create_target_from_file("t")
    \/ Len(hist) = 1 /\ get_global("t", cfgN)
    \/ Len(hist) = 2 /\ Returned(2)
          /\ get_member(Given(2).id, Given(2).name, countN)
    \/ Len(hist) = 3 /\ Returned(3)
          /\ get_value_number(Given(3).id, Given(3).name)
    \/ Len(hist) = 4 /\ Returned(2)
          /\ get_member(Given(2).id, Given(2).name, itemsN)
    \/ Len(hist) = 5 /\ Returned(5)
          /\ get_array_size(Given(5).id, Given(5).name)
    \/ Len(hist) = 6 /\ Returned(5)
          /\ get_index(Given(5).id, Given(5).name, 1)
    \/ Len(hist) = 7 /\ Returned(7)
          /\ get_value_number(Given(7).id, Given(7).name)
    \/ Len(hist) = 8 /\ Returned(5)
          /\ get_index(Given(5).id, Given(5).name, 5)
    \/ script_return

SpecScript == InitScript /\ [][NextScript]_vars

----------------------------------------------------------------------------
(* Claims.                                                                 *)

HandleOps ==
    {"get_member", "get_members", "get_index", "get_array_size",
     "get_value_number", "get_value_string"}

TraversalOps == {"get_global", "get_member", "get_members", "get_index"}

\* the Symbol a call's handle resolves to
Live == Native[symbols[last.id]]

\* C1: a handle-taking operation called with an identifier that was never
\* issued fails with the reportable error UnknownHandle, for all six operations.
C1_UnknownHandle ==
    (last.op \in HandleOps /\ last.id \notin DOMAIN symbols)
        => last.err = "UnknownHandle"

\* C2: for an ARRAY of length L under handle H, get_index(H, n) succeeds for
\* 0 <= n < L and fails with IndexOutOfRange for n < 0 and for n >= L, and no
\* out-of-range n yields a handle.
C2_IndexRange ==
    (last.op = "get_index" /\ last.id \in DOMAIN symbols /\ type(Live) = "ARRAY")
        => IF 0 <= last.idx /\ last.idx < Len(Live.children)
           THEN last.err = "none" /\ Len(last.infos) = 1
           ELSE last.err = "IndexOutOfRange" /\ last.infos = <<>>

HasChildNamed(n, nm) == \E i \in 1..Len(n.children) : Native[n.children[i]].name = nm

\* C3: for a STRUCT under handle H, get_member(H, name) succeeds iff the struct
\* has a child of exactly that name, and then returns a Symbol of that name;
\* otherwise it fails with NoSuchMember and returns no handle.
C3_MemberLookup ==
    (/\ last.op = "get_member"
     /\ last.id \in DOMAIN symbols
     /\ type(Live) = "STRUCT"
     /\ last.snap = name(Live))
        => IF HasChildNamed(Live, last.arg)
           THEN /\ last.err = "none"
                /\ Len(last.infos) = 1
                /\ last.infos[1].name = last.arg
           ELSE last.err = "NoSuchMember" /\ last.infos = <<>>

ContainsSpecial(nm) == \E i \in 1..Len(nm) : nm[i] \in {".", "[", "]"}

\* C4: get_global on an existing target with a name that is no global of the
\* target fails with SymbolNotFound, produces no Symbol and registers no handle.
C4_SymbolNotFound ==
    [][(/\ last'.op = "get_global"
        /\ last'.target \in targets
        /\ ~ContainsSpecial(last'.arg)
        /\ ~\E g \in GlobalValues : Native[g].name = last'.arg)
          => (/\ last'.err = "SymbolNotFound"
              /\ last'.infos = <<>>
              /\ symbols' = symbols)]_vars

\* C5: get_global rejects with InvalidIdentifier every name that contains '.',
\* '[' or ']' at any position, the first included.
C5_InvalidIdentifier ==
    (last.op = "get_global" /\ ContainsSpecial(last.arg))
        => last.err = "InvalidIdentifier"

\* the types each handle-taking operation requires
Required(op) ==
    CASE op \in {"get_member", "get_members"} -> {"STRUCT"}
      [] op \in {"get_index", "get_array_size"} -> {"ARRAY"}
      [] op = "get_value_number" -> {"BASIC", "POINTER", "ENUM"}
      [] op = "get_value_string" -> {"STRING", "ENUM"}

\* C6: a handle-taking operation on a live symbol whose type is not in the
\* operation's required category fails with WrongSymbolType, and the error
\* carries a suggestion naming an accessor appropriate for the actual type.
C6_WrongSymbolType ==
    (/\ last.op \in HandleOps
     /\ last.id \in DOMAIN symbols
     /\ Live.valid
     /\ last.snap = name(Live)
     /\ type(Live) \notin Required(last.op))
        => (/\ last.err = "WrongSymbolType"
            /\ last.suggest # {}
            /\ \A a \in last.suggest : type(Live) \in Required(a))

\* C7: every handle-taking operation checks the snapshot's name against the
\* live Symbol's name and fails with HandleMismatch when they differ.
C7_HandleMismatch ==
    (/\ last.op \in HandleOps
     /\ last.id \in DOMAIN symbols
     /\ Live.valid
     /\ last.snap # name(Live))
        => last.err = "HandleMismatch"

\* C8: a failed boundary operation leaves the handle table exactly as it was.
C8_FailedOpFrame ==
    [][(last'.op \in HandleOps \cup {"get_global"} /\ last'.err # "none")
          => symbols' = symbols]_vars

\* C9 as stated: each successful traversal operation (get_global, get_member,
\* get_members, get_index) adds exactly one entry, under a fresh identifier.
C9_ExactlyOneEntry ==
    [][(last'.op \in TraversalOps /\ last'.err = "none")
          => (/\ Cardinality(DOMAIN symbols' \ DOMAIN symbols) = 1
              /\ \A h \in DOMAIN symbols :
                    h \in DOMAIN symbols' /\ symbols'[h] = symbols[h])]_vars

\* C9 amended: a successful get_global, get_member or get_index adds exactly one
\* entry, a successful get_members one entry per member of the struct; every
\* entry goes under an identifier that was not in the table, the returned
\* handles are those identifiers, and the earlier entries stay as they were.
C9_EntriesPerResult ==
    [][(last'.op \in TraversalOps /\ last'.err = "none")
          => LET new == DOMAIN symbols' \ DOMAIN symbols
             IN  /\ Cardinality(new) =
                       IF last'.op = "get_members"
                       THEN Len(Native[symbols[last'.id]].children)
                       ELSE 1
                 /\ Len(last'.infos) = Cardinality(new)
                 /\ {last'.infos[i].id : i \in 1..Len(last'.infos)} = new
                 /\ \A h \in DOMAIN symbols :
                       h \in DOMAIN symbols' /\ symbols'[h] = symbols[h]]_vars

\* a get_members call on cfg has returned the handles of its two members
C9_Witness ==
    /\ last.op = "get_members"
    /\ last.err = "none"
    /\ Len(last.infos) = 2
    /\ Cardinality(DOMAIN symbols) = 3

\* a char array whose bytes, up to the first zero byte, are all in 33..127
ValidCharString(p) ==
    /\ p.elemChar
    /\ \A i \in 1..Len(p.bytes) :
          (\A j \in 1..(i - 1) : p.bytes[j] # 0)
             => (p.bytes[i] = 0 \/ (33 <= p.bytes[i] /\ p.bytes[i] <= 127))

\* C10: classification returns exactly one of the six kinds, the first in the
\* order pointer, array (STRING when a valid char string), aggregate,
\* enumeration, basic whose test holds, and never fails.
C10_Precedence ==
    ptype # "none"
        => /\ ptype \in SymbolType
           /\ ptype = IF probe.isPointer THEN "POINTER"
                      ELSE IF probe.isArray
                           THEN IF ValidCharString(probe) THEN "STRING" ELSE "ARRAY"
                      ELSE IF probe.isAggregate THEN "STRUCT"
                      ELSE IF probe.isEnum THEN "ENUM"
                      ELSE "BASIC"

\* a char array whose bytes can be read
CharArray(p) == ~p.isPointer /\ p.isArray /\ p.elemChar /\ p.readOk

Printable(b) == 33 <= b /\ b <= 127

\* the position of the first zero byte, or one past the end
FirstZero(bs) ==
    IF \E i \in 1..Len(bs) : bs[i] = 0
    THEN CHOOSE i \in 1..Len(bs) : bs[i] = 0 /\ \A j \in 1..(i - 1) : bs[j] # 0
    ELSE Len(bs) + 1

C12_TypeStable ==
    (ptype # "none" /\ pval # NoVal) => pval = <<"type", ptype>>

\* what value_number raises for a basic type it has no reading for
Unsupported == {"NotImplementedError", "ValueError"}

\* C13: value_number of a BASIC value goes by the basic type: plain and signed
\* char give the signed value, unsigned char the unsigned value, short, int,
\* long and long long (signed or unsigned) the integer the text denotes, float
\* and double the floating-point number the text denotes, and every other
\* basic type fails as unsupported.
C13_NumberDispatch ==
    (pval # NoVal /\ pval[1] = "number" /\ type(probe) = "BASIC")
        => LET b == probe.basicType
               r == pval[2]
           IN  CASE b \in {"Char", "SignedChar"} ->
                      r = [exc |-> "none", kind |-> "int", val |-> probe.sval]
                 [] b = "UnsignedChar" ->
                      r = [exc |-> "none", kind |-> "int", val |-> probe.uval]
                 [] b \in SignedInts \cup UnsignedInts ->
                      r = [exc |-> "none", kind |-> "int", val |-> probe.sval]
                 [] b \in float_types ->
                      /\ r.exc = "none"
                      /\ r.kind = "float"
                      /\ \E x \in FloatSamples : x[1] = probe.text /\ x[2] = r.val
                 [] OTHER -> r.exc \in Unsupported

\* the nine reportable errors
Taxonomy ==
    {"TargetNotFound", "SymbolNotFound", "InvalidIdentifier", "UnknownHandle",
     "HandleMismatch", "WrongSymbolType", "NoSuchMember", "IndexOutOfRange",
     "UnsupportedType"}

\* C14: every call of a boundary operation, whatever its input, either
\* succeeds or ends with one of the nine reportable errors.
C14_NothingFatal ==
    last # Idle => last.err \in {"none"} \cup Taxonomy

\* C15: get_global on a target name that was never created fails with
\* TargetNotFound and leaves the handle table as it was.
C15_TargetNotFound ==
    [][(last'.op = "get_global" /\ last # last' /\ last'.target \notin targets
            /\ ~ContainsSpecial(last'.arg))
          => (last'.err = "TargetNotFound" /\ symbols' = symbols)]_vars

\* C16: list_targets never fails and returns exactly the names of the targets
\* the registry holds.
C16_ListTargets ==
    last.op = "get_targets" => (last.err = "none" /\ last.val = <<"names", targets>>)

\* the k-th call of the script returned one handle of type t
Handle(k, t) == Returned(k) /\ Given(k).type = t

\* the k-th call of the script returned the number v
Number(k, v) == hist[k].err = "none" /\ hist[k].val = <<"int", v>>

\* the walk of cfg up to the read of items[1]
ScenarioWalk ==
    /\ Len(hist) >= 2 => Handle(2, "STRUCT")
    /\ Len(hist) >= 3 => Handle(3, "BASIC")
    /\ Len(hist) >= 4 => Number(4, 10)
    /\ Len(hist) >= 5 => Handle(5, "ARRAY")
    /\ Len(hist) >= 6 => Number(6, 3)
    /\ Len(hist) >= 7 => Returned(7)
    /\ Len(hist) >= 8 => Number(8, 2)

\* C17: get_global(t, cfg) gives H0 of type STRUCT; get_member(H0, count) gives
\* H1 of type BASIC with number 10; get_member(H0, items) gives H2 of type
\* ARRAY of size 3; get_index(H2, 1) gives H3 with number 2; get_index(H2, 5)
\* fails with IndexOutOfRange; H0..H3 are pairwise distinct and all four are
\* in the handle table at the end.
C17_Scenario ==
    /\ ScenarioWalk
    /\ Len(hist) >= 9
          => /\ hist[9].err = "IndexOutOfRange"
             /\ LET H == {Given(2).id, Given(3).id, Given(5).id, Given(7).id}
                 IN  Cardinality(H) = 4 /\ H \subseteq DOMAIN symbols

\* the call in progress is op on a handle of the global mode, an enum whose
\* value is the enumerator RED = 1
OnMode(op) ==
    /\ last.op = op
    /\ last.id \in DOMAIN symbols
    /\ symbols[last.id] = "mode"
    /\ type(Live) = "ENUM"

C19_AppendOnly ==
    [][\A h \in DOMAIN symbols :
          h \in DOMAIN symbols' /\ symbols'[h] = symbols[h]]_vars

\* a traversal has just added a third entry next to two older ones
C19_Witness ==
    /\ last.op \in TraversalOps
    /\ last.err = "none"
    /\ Cardinality(DOMAIN symbols) = 3
    /\ \E h \in DOMAIN symbols :
          \A k \in 1..Len(last.infos) : last.infos[k].id # h

\* C20: a char array whose bytes are all in 33..127, with no zero byte within
\* its declared length, is not classified as STRING.
C20_NulTerminated ==
    (CharArray(probe) /\ ptype # "none"
        /\ \A i \in 1..Len(probe.bytes) : Printable(probe.bytes[i]))
        => ptype # "STRING"

StepOps == {"get_member", "get_index"}

ScalarTypes == {"BASIC", "POINTER", "STRING", "ENUM"}

Max(S) == CHOOSE x \in S : \A y \in S : y <= x

\* how many steps a native value can still be descended: none through a
\* pointer or a value without children, else one more than its deepest child
RECURSIVE Height(_)
Height(v) ==
    LET n == Native[v]
    IN  IF n.isPointer \/ n.children = <<>> THEN 0
        ELSE 1 + Max({Height(n.children[i]) : i \in 1..Len(n.children)})

\* C21: a get_member or get_index step never succeeds on a scalar Symbol
\* (BASIC, POINTER, STRING, ENUM), and every step that succeeds produces a
\* Symbol strictly lower in the finite native value than the one it was applied
\* to, a pointer counting as a leaf; so every chain of successful steps ends.
C21_TraversalDescends ==
    [][(last'.op \in StepOps /\ last' # last /\ last'.id \in DOMAIN symbols)
          => LET parent == symbols[last'.id]
             IN  /\ type(Native[parent]) \in ScalarTypes => last'.err # "none"
                 /\ last'.err = "none"
                       => /\ Len(last'.infos) = 1
                          /\ \E h \in DOMAIN symbols' \ DOMAIN symbols :
                                /\ h = last'.infos[1].id
                                /\ Height(symbols'[h]) < Height(parent)]_vars

\* the second step of a descent: an element of cfg.items, a scalar, was produced
\* from the handle of items, itself below cfg
C21_Witness ==
    /\ last.op = "get_index"
    /\ last.err = "none"
    /\ last.id \in DOMAIN symbols
    /\ symbols[last.id] = "items"
    /\ last.infos[1].type = "BASIC"
    /\ Height("cfg") = 2
    /\ \E h \in DOMAIN symbols : symbols[h] = "cfg"

\* what the backend reports of a canonical type: a pointer type is not an
\* aggregate (aggregates are the array, vector and record type classes)
PointerNotAggregate(p) == ~(p.isPointer /\ p.isAggregate)

\* C22: for every Symbol, type() is STRUCT exactly when has_members() holds,
\* that is when the native type is an aggregate and not an array: a Symbol
\* the STRUCT check lets through passes _check_members, and no Symbol with
\* has_members() is reported as another type.
C22_StructIffHasMembers ==
    (ptype # "none" /\ PointerNotAggregate(probe))
        => /\ (ptype = "STRUCT") <=> has_members(probe)
           /\ has_members(probe) <=> (probe.isAggregate /\ ~probe.isArray)
           /\ ptype = "STRUCT" => check_members(probe)

\* a record type, classified
C22_Witness ==
    /\ probe.isAggregate /\ ~probe.isArray /\ ~probe.isPointer
    /\ ptype = "STRUCT"
    /\ has_members(probe)

====
